---- MODULE Spec2Model ----
(***************************************************************************)
(* Model of the homework-status Telegram bot (homework.py, exceptions.py). *)
(* main() is a sequential polling loop; each function it calls is one      *)
(* action, and exceptions travel in the variable error until an except     *)
(* clause of main consumes them or they leave main.                        *)
(***************************************************************************)
EXTENDS Integers, Sequences, FiniteSets, TLC

(* ----------------------------- bounds --------------------------------- *)

\* longest homework list drawn for the isolated get_latest_homework runs
MaxLen == 3
\* longest homework list the endpoint returns in the polling loop
MaxPolled == 2
\* date_updated values are 1..MaxDate (0 stands for a missing or empty one)
MaxDate == 3
\* length of the over-long homework name
LongNameLen == 5000
\* the iteration count is kept up to MaxPolls, beyond it as MaxPolls
MaxPolls == 2
\* a run of equal failures is counted up to MaxRun, beyond it as MaxRun
MaxRun == 3

(* ------------------------ program constants --------------------------- *)

MAX_MESSAGE_LENGTH == 4096
\* characters of the template around name and verdict (line 140)
TemplateLen == 37

(* --------------------------- JSON values ------------------------------ *)

\* what dict.get returns for an absent key
JNone == "<None>"
\* a non-empty JSON array standing where a string is expected
JList == "<list>"
LongName == "<long name>"

\* Python truth value of a field read with dict.get
Truthy(v) == v \notin {JNone, ""}

\* an unhashable value cannot be used as a dict key
Hashable(v) == v # JList

Homework(n, s, d) == [homework_name |-> n, status |-> s, date_updated |-> d]

NoHomework == Homework(JNone, JNone, 0)

Names == {JNone, "", "hw1", "hw2", LongName}
Statuses == {JNone, "", "reviewing", "rejected", "approved", "unknown", JList}
Dates == 0..MaxDate

\* every item parse_status is tried on
Homeworks == {Homework(n, s, d) : n \in Names, s \in Statuses, d \in {0, 1}}

\* items of the lists get_latest_homework is tried on
SelectHomeworks == {Homework(n, "approved", d) : n \in {"hw1", "hw2"}, d \in Dates}

\* items of the lists the endpoint returns in the polling loop
PolledHomeworks ==
    { Homework("hw1", "approved", 1),
      Homework("hw1", "rejected", 2),
      Homework(LongName, "approved", 2),
      Homework("", "approved", 1),
      Homework("hw1", "", 1),
      Homework("hw1", JList, 2),
      Homework("hw1", "approved", 0) }

SeqsUpTo(S, n) == UNION {[1..k -> S] : k \in 0..n}

(* ------------------------- response bodies ---------------------------- *)

\* a parsed JSON body: shape is what isinstance and "in" observe
Body(shape, hws) == [shape |-> shape, homeworks |-> hws]

NoResponse == Body("unset", <<>>)

PolledBodies ==
    {Body("not_dict", <<>>), Body("no_key", <<>>), Body("not_list", <<>>)}
        \cup {Body("dict", hws) : hws \in SeqsUpTo(PolledHomeworks, MaxPolled)}

(* ----------------------------- messages ------------------------------- *)

Message(kind, name, verdict) == [kind |-> kind, name |-> name, verdict |-> verdict]

\* the empty string previous_status starts with
EmptyString == Message("empty", "", "")
\* history marker: no status message was derived
NoMessage == Message("none", "", "")

HOMEWORK_VERDICTS ==
    [s \in {"reviewing", "rejected", "approved"} |->
        CASE s = "reviewing" -> "taken for review"
          [] s = "rejected" -> "reviewer has remarks"
          [] s = "approved" -> "reviewer liked it"]

VerdictLen(verdict) ==
    CASE verdict = "taken for review" -> 35
      [] verdict = "reviewer has remarks" -> 44
      [] verdict = "reviewer liked it" -> 48
      [] OTHER -> 0

NameLen(name) ==
    CASE name = LongName -> LongNameLen
      [] name = "hw1" -> 3
      [] name = "hw2" -> 3
      [] OTHER -> 0

\* len() of a status message built by the f-string of parse_status
Length(message) == TemplateLen + NameLen(message.name) + VerdictLen(message.verdict)

\* message[:MAX_MESSAGE_LENGTH]; an error text is kept by the clause that
\* built it, which the slice preserves
Slice(message) ==
    IF message.kind = "status" /\ Length(message) > MAX_MESSAGE_LENGTH
    THEN [message EXCEPT !.kind = "status_prefix"]
    ELSE message

(* ---------------------------- exceptions ------------------------------ *)

NoError == "none"

\* direct base class (exceptions.py and the builtins / libraries involved)
Base(cls) ==
    CASE cls = "InvalidResponseData" -> "ValueError"
      [] cls = "UnexpectedResponseData" -> "TypeError"
      [] cls = "EmptyHomeworksList" -> "TypeError"
      [] cls = "UnexpectedHomeworkData" -> "TypeError"
      [] cls = "MessageNotSent" -> "TelegramError"
      [] OTHER -> "Exception"

RECURSIVE IsInstance(_, _)
IsInstance(cls, base) ==
    \/ cls = base
    \/ cls # "Exception" /\ IsInstance(Base(cls), base)

\* the except clauses of main, in source order
ExceptClauses ==
    << "ResponseStatusNotOk", "RequestError", "InvalidResponseData",
       "UnexpectedResponseData", "EmptyHomeworksList",
       "UnexpectedHomeworkData", "MessageNotSent", "Exception" >>

\* the first clause whose class the raised exception is an instance of
ExceptClause(cls) ==
    LET matching == {i \in 1..Len(ExceptClauses) : IsInstance(cls, ExceptClauses[i])}
        first == CHOOSE i \in matching : \A j \in matching : i <= j
    IN  ExceptClauses[first]

\* the f-string message built by an except clause for the exception caught
ErrorMessage(clause, cls) == Message("error", clause, cls)

(* ------------------------- the functions ------------------------------ *)

\* a call either returns value or raises the exception class raised
Return(v) == [raised |-> NoError, value |-> v]
Raise(cls, dummy) == [raised |-> cls, value |-> dummy]

\* the check with any() in place of all()
check_tokens_any(environ) ==
    IF \/ Truthy(environ.PRACTICUM_TOKEN)
       \/ Truthy(environ.TELEGRAM_TOKEN)
       \/ Truthy(environ.TELEGRAM_CHAT_ID)
    THEN NoError
    ELSE "MissingTokenError"

\* check_tokens: all([...]) over the three environment values
check_tokens(environ) ==
    IF /\ Truthy(environ.PRACTICUM_TOKEN)
       /\ Truthy(environ.TELEGRAM_TOKEN)
       /\ Truthy(environ.TELEGRAM_CHAT_ID)
    THEN NoError
    ELSE "MissingTokenError"

\* exit status of sys.exit(arg): None means success, a string is printed
\* and means failure
ExitStatus(arg) == IF arg = JNone THEN 0 ELSE 1

\* what bot.send_message is handed, and whether it returned
Attempt(message, delivered) ==
    [message |-> message, text |-> Slice(message), ok |-> delivered]

\* send_message: a TelegramError of the client becomes MessageNotSent
send_message(message, delivered) ==
    IF delivered
    THEN Return(Attempt(message, TRUE))
    ELSE Raise("MessageNotSent", Attempt(message, FALSE))

\* status codes the HTTPStatus enum knows
RegisteredCodes == {200, 404, 500}
\* status codes the endpoint answers with in the model
StatusCodes == RegisteredCodes \cup {299}

\* an answer of requests.get: transport outcome, status code, body
Reply(transport, code, json, body) ==
    [transport |-> transport, status_code |-> code, json |-> json, body |-> body]

Replies ==
    {Reply("failed", 200, TRUE, NoResponse)}
        \cup {Reply("ok", c, TRUE, NoResponse) : c \in StatusCodes \ {200}}
        \cup {Reply("ok", 200, FALSE, NoResponse)}
        \cup {Reply("ok", 200, TRUE, b) : b \in PolledBodies}

\* no request was made yet in this iteration
NoReply == Reply("unset", 0, TRUE, NoResponse)

get_api_answer(reply) ==
    IF reply.transport # "ok" THEN Raise("RequestError", NoResponse)
    ELSE IF reply.status_code \notin RegisteredCodes THEN Raise("ValueError", NoResponse)
    ELSE IF reply.status_code # 200 THEN Raise("ResponseStatusNotOk", NoResponse)
    ELSE IF ~reply.json THEN Raise("InvalidResponseData", NoResponse)
    ELSE Return(reply.body)

\* the validation without the test for an empty list
check_response_empty_ok(resp) ==
    IF resp.shape = "not_dict" THEN "UnexpectedResponseData"
    ELSE IF resp.shape = "no_key" THEN "UnexpectedResponseData"
    ELSE IF resp.shape = "not_list" THEN "UnexpectedResponseData"
    ELSE NoError

check_response(resp) ==
    IF resp.shape = "not_dict" THEN "UnexpectedResponseData"
    ELSE IF resp.shape = "no_key" THEN "UnexpectedResponseData"
    ELSE IF resp.shape = "not_list" THEN "UnexpectedResponseData"
    ELSE IF resp.homeworks = <<>> THEN "EmptyHomeworksList"
    ELSE NoError

\* a mis-sort that lets a later item overtake an earlier one of equal key
InsertUnstable(s, h) ==
    LET k == Cardinality({i \in 1..Len(s) : s[i].date_updated > h.date_updated})
    IN  SubSeq(s, 1, k) \o <<h>> \o SubSeq(s, k + 1, Len(s))

\* one step of the stable descending sort: h goes behind every item whose
\* key is not smaller, so equal keys keep their list order
Insert(s, h) ==
    LET k == Cardinality({i \in 1..Len(s) : s[i].date_updated >= h.date_updated})
    IN  SubSeq(s, 1, k) \o <<h>> \o SubSeq(s, k + 1, Len(s))

\* sorted(homeworks, key=date_updated, reverse=True)
RECURSIVE sorted(_)
sorted(hws) ==
    IF hws = <<>> THEN <<>>
    ELSE Insert(sorted(SubSeq(hws, 1, Len(hws) - 1)), hws[Len(hws)])

\* the selection with ascending order (reverse=True forgotten)
get_latest_homework_ascending(resp) ==
    IF \E i \in 1..Len(resp.homeworks) : resp.homeworks[i].date_updated = 0
    THEN Raise("UnexpectedHomeworkData", NoHomework)
    ELSE IF resp.homeworks = <<>> THEN Raise("IndexError", NoHomework)
    ELSE Return(sorted(resp.homeworks)[Len(resp.homeworks)])

\* the selection with a shortcut for a one-item list
get_latest_homework_shortcut(resp) ==
    IF Len(resp.homeworks) = 1 THEN Return(resp.homeworks[1])
    ELSE IF \E i \in 1..Len(resp.homeworks) : resp.homeworks[i].date_updated = 0
    THEN Raise("UnexpectedHomeworkData", NoHomework)
    ELSE IF resp.homeworks = <<>> THEN Raise("IndexError", NoHomework)
    ELSE Return(sorted(resp.homeworks)[1])

get_latest_homework(resp) ==
    IF \E i \in 1..Len(resp.homeworks) : resp.homeworks[i].date_updated = 0
    THEN Raise("UnexpectedHomeworkData", NoHomework)
    ELSE IF resp.homeworks = <<>> THEN Raise("IndexError", NoHomework)
    ELSE Return(sorted(resp.homeworks)[1])

parse_status(hw) ==
    IF ~Truthy(hw.homework_name) THEN Raise("UnexpectedHomeworkData", NoMessage)
    ELSE IF ~Truthy(hw.status) THEN Raise("UnexpectedHomeworkData", NoMessage)
    ELSE IF ~Hashable(hw.status) THEN Raise("TypeError", NoMessage)
    ELSE IF hw.status \notin DOMAIN HOMEWORK_VERDICTS
    THEN Raise("UnexpectedHomeworkData", NoMessage)
    ELSE Return(Message("status", hw.homework_name, HOMEWORK_VERDICTS[hw.status]))

(* ------------------------------ state --------------------------------- *)

VARIABLES
    pc,               \* position in main
    environ,          \* the three environment values read at import
    previous_status,  \* main's previous_status
    response,         \* main's response
    homework,         \* main's homework
    current_status,   \* main's current_status
    error,            \* the exception in flight, NoError if none
    exit_code,        \* exit status of the process, -1 while it runs
    sent,             \* history: send attempts of this iteration, in order
    thisPoll,         \* history: message derived in this iteration
    lastPoll,         \* history: message derived in the previous iteration
    lastSent,         \* history: send attempts of the previous iteration
    prevAtStart,      \* history: previous_status when this iteration began
    failed,           \* history: step of this iteration that raised first
    fetched,          \* history: the answer requests.get gave this iteration
    polls,            \* history: number of this iteration, counted to MaxPolls
    run,              \* history: length of the current run of iterations that
                      \*   failed alike in the pipeline, counted to MaxRun
    runSent           \* history: error messages delivered during that run

vars == << pc, environ, previous_status, response, homework, current_status,
           error, exit_code, sent, thisPoll, lastPoll, lastSent, prevAtStart,
           failed, fetched, polls, run, runSent >>

locals == << response, homework, current_status >>
history == << sent, thisPoll, lastPoll, lastSent, prevAtStart, failed >>
counters == << polls, run, runSent >>

EnvValues == {JNone, "", "token"}

Environs ==
    [PRACTICUM_TOKEN : EnvValues, TELEGRAM_TOKEN : EnvValues, TELEGRAM_CHAT_ID : EnvValues]

AllSet == [PRACTICUM_TOKEN |-> "token", TELEGRAM_TOKEN |-> "token", TELEGRAM_CHAT_ID |-> "token"]

\* everything but pc, environ and the locals, as main leaves it at line 145
Fresh ==
    /\ previous_status = EmptyString
    /\ error = NoError
    /\ exit_code = -1
    /\ sent = <<>>
    /\ thisPoll = NoMessage
    /\ lastPoll = NoMessage
    /\ lastSent = <<>>
    /\ prevAtStart = EmptyString
    /\ failed = "none"
    /\ fetched = NoReply
    /\ polls = 1
    /\ run = 0
    /\ runSent = 0

Init ==
    /\ pc = "start"
    /\ environ \in Environs
    /\ response = NoResponse
    /\ homework = NoHomework
    /\ current_status = NoMessage
    /\ Fresh

(* ----------------------------- actions -------------------------------- *)

\* lines 147-155: check_tokens, and sys.exit() when a value is missing
Startup ==
    /\ pc = "start"
    /\ IF check_tokens(environ) = NoError
       THEN pc' = "fetch" /\ UNCHANGED exit_code
       ELSE pc' = "exited" /\ exit_code' = ExitStatus(JNone)
    /\ UNCHANGED << environ, counters, fetched, previous_status, locals, error, history >>

\* line 161
GetApiAnswer ==
    /\ pc = "fetch"
    /\ \E reply \in Replies :
         LET r == get_api_answer(reply) IN
           /\ fetched' = reply
           /\ IF r.raised = NoError
              THEN /\ response' = r.value
                   /\ pc' = "check"
                   /\ UNCHANGED << error, failed >>
              ELSE /\ error' = r.raised
                   /\ failed' = "fetch"
                   /\ pc' = "except"
                   /\ UNCHANGED response
    /\ UNCHANGED << environ, counters, previous_status, homework, current_status,
                    exit_code, sent, thisPoll, lastPoll, lastSent, prevAtStart >>

\* the validation step that passes over an empty list in silence once a
\* status has been notified
CheckResponseSilentAfterFirst ==
    /\ pc = "check"
    /\ LET raised == check_response(response) IN
         IF raised = NoError
         THEN pc' = "select" /\ UNCHANGED << error, failed >>
         ELSE IF raised = "EmptyHomeworksList" /\ previous_status # EmptyString
         THEN pc' = "finally" /\ UNCHANGED << error, failed >>
         ELSE error' = raised /\ failed' = "check" /\ pc' = "except"
    /\ UNCHANGED << environ, counters, fetched, previous_status, locals,
                    exit_code, sent, thisPoll, lastPoll, lastSent, prevAtStart >>

\* line 162
CheckResponse ==
    /\ pc = "check"
    /\ LET raised == check_response(response) IN
         IF raised = NoError
         THEN pc' = "select" /\ UNCHANGED << error, failed >>
         ELSE error' = raised /\ failed' = "check" /\ pc' = "except"
    /\ UNCHANGED << environ, counters, fetched, previous_status, locals,
                    exit_code, sent, thisPoll, lastPoll, lastSent, prevAtStart >>

\* line 163
GetLatestHomework ==
    /\ pc = "select"
    /\ LET r == get_latest_homework(response) IN
         IF r.raised = NoError
         THEN /\ homework' = r.value
              /\ pc' = "parse"
              /\ UNCHANGED << error, failed >>
         ELSE /\ error' = r.raised
              /\ failed' = "select"
              /\ pc' = "except"
              /\ UNCHANGED homework
    /\ UNCHANGED << environ, counters, fetched, previous_status, response, current_status,
                    exit_code, sent, thisPoll, lastPoll, lastSent, prevAtStart >>

\* line 164
ParseStatus ==
    /\ pc = "parse"
    /\ LET r == parse_status(homework) IN
         IF r.raised = NoError
         THEN /\ current_status' = r.value
              /\ thisPoll' = r.value
              /\ pc' = "notify"
              /\ UNCHANGED << error, failed >>
         ELSE /\ error' = r.raised
              /\ failed' = "parse"
              /\ pc' = "except"
              /\ UNCHANGED << current_status, thisPoll >>
    /\ UNCHANGED << environ, counters, fetched, previous_status, response, homework,
                    exit_code, sent, lastPoll, lastSent, prevAtStart >>

\* the notify step that takes the first status as the baseline, unsent
NotifySuppressFirst ==
    /\ pc = "notify"
    /\ IF current_status = previous_status
       THEN /\ pc' = "finally"
            /\ UNCHANGED << previous_status, error, sent, failed >>
       ELSE IF previous_status = EmptyString
       THEN /\ previous_status' = current_status
            /\ pc' = "finally"
            /\ UNCHANGED << error, sent, failed >>
       ELSE /\ previous_status' = current_status
            /\ \E delivered \in BOOLEAN :
                 LET r == send_message(current_status, delivered) IN
                   /\ sent' = Append(sent, r.value)
                   /\ error' = r.raised
                   /\ IF r.raised = NoError
                      THEN pc' = "finally" /\ UNCHANGED failed
                      ELSE pc' = "except" /\ failed' = "notify"
    /\ UNCHANGED << environ, counters, fetched, locals, exit_code,
                    thisPoll, lastPoll, lastSent, prevAtStart >>

\* the notify step with the assignment moved behind a successful send
NotifyAssignAfterSend ==
    /\ pc = "notify"
    /\ IF current_status = previous_status
       THEN /\ pc' = "finally"
            /\ UNCHANGED << previous_status, error, sent, failed >>
       ELSE \E delivered \in BOOLEAN :
              LET r == send_message(current_status, delivered) IN
                /\ sent' = Append(sent, r.value)
                /\ error' = r.raised
                /\ IF r.raised = NoError
                   THEN /\ previous_status' = current_status
                        /\ pc' = "finally"
                        /\ UNCHANGED failed
                   ELSE /\ pc' = "except"
                        /\ failed' = "notify"
                        /\ UNCHANGED previous_status
    /\ UNCHANGED << environ, counters, fetched, locals, exit_code,
                    thisPoll, lastPoll, lastSent, prevAtStart >>

\* lines 166-170: the assignment of line 169 precedes the send of line 170
Notify ==
    /\ pc = "notify"
    /\ IF current_status = previous_status
       THEN /\ pc' = "finally"
            /\ UNCHANGED << previous_status, error, sent, failed >>
       ELSE /\ previous_status' = current_status
            /\ \E delivered \in BOOLEAN :
                 LET r == send_message(current_status, delivered) IN
                   /\ sent' = Append(sent, r.value)
                   /\ error' = r.raised
                   /\ IF r.raised = NoError
                      THEN pc' = "finally" /\ UNCHANGED failed
                      ELSE pc' = "except" /\ failed' = "notify"
    /\ UNCHANGED << environ, counters, fetched, locals, exit_code,
                    thisPoll, lastPoll, lastSent, prevAtStart >>

\* except clauses whose failed send leaves main at once, the sleep sitting
\* in the else branch instead of finally
ExceptCrashNoSleep ==
    /\ pc = "except"
    /\ \E delivered \in BOOLEAN :
         LET r == send_message(ErrorMessage(ExceptClause(error), error), delivered) IN
           /\ sent' = Append(sent, r.value)
           /\ error' = r.raised
           /\ pc' = IF r.raised = NoError THEN "finally" ELSE "crashed"
    /\ UNCHANGED << environ, counters, fetched, previous_status, locals, exit_code,
                    thisPoll, lastPoll, lastSent, prevAtStart, failed >>

\* except clauses that remember their message as the last status
ExceptStoreMessage ==
    /\ pc = "except"
    /\ \E delivered \in BOOLEAN :
         LET r == send_message(ErrorMessage(ExceptClause(error), error), delivered) IN
           /\ sent' = Append(sent, r.value)
           /\ error' = r.raised
    /\ previous_status' = ErrorMessage(ExceptClause(error), error)
    /\ pc' = "finally"
    /\ UNCHANGED << environ, counters, fetched, locals, exit_code,
                    thisPoll, lastPoll, lastSent, prevAtStart, failed >>

\* except clauses that do not repeat the error message of the previous
\* iteration
ExceptDeduplicate ==
    /\ pc = "except"
    /\ IF /\ lastSent # <<>>
          /\ lastSent[Len(lastSent)].message = ErrorMessage(ExceptClause(error), error)
       THEN /\ error' = NoError
            /\ UNCHANGED sent
       ELSE \E delivered \in BOOLEAN :
              LET r == send_message(ErrorMessage(ExceptClause(error), error), delivered) IN
                /\ sent' = Append(sent, r.value)
                /\ error' = r.raised
    /\ pc' = "finally"
    /\ UNCHANGED << environ, counters, fetched, previous_status, locals, exit_code,
                    thisPoll, lastPoll, lastSent, prevAtStart, failed >>

\* an except clause that also forgets the last status
ExceptResetStatus ==
    /\ pc = "except"
    /\ \E delivered \in BOOLEAN :
         LET r == send_message(ErrorMessage(ExceptClause(error), error), delivered) IN
           /\ sent' = Append(sent, r.value)
           /\ error' = r.raised
    /\ previous_status' = EmptyString
    /\ pc' = "finally"
    /\ UNCHANGED << environ, counters, fetched, locals, exit_code,
                    thisPoll, lastPoll, lastSent, prevAtStart, failed >>

\* lines 172-210: the matching clause logs and sends its message; an
\* exception of that send is raised outside the try body and leaves the
\* statement through finally
Except ==
    /\ pc = "except"
    /\ \E delivered \in BOOLEAN :
         LET r == send_message(ErrorMessage(ExceptClause(error), error), delivered) IN
           /\ sent' = Append(sent, r.value)
           /\ error' = r.raised
    /\ pc' = "finally"
    /\ UNCHANGED << environ, counters, fetched, previous_status, locals, exit_code,
                    thisPoll, lastPoll, lastSent, prevAtStart, failed >>

Min(a, b) == IF a <= b THEN a ELSE b

\* this iteration raised in fetch, validation, selection or derivation
FailedInPipeline == failed \in {"fetch", "check", "select", "parse"}

\* number of attempts of the log that were delivered
Delivered(log) == Cardinality({i \in 1..Len(log) : log[i].ok})

\* the previous iteration failed in the pipeline with the same error message
\* and that message was delivered
SameFailureAsLast ==
    /\ FailedInPipeline
    /\ sent # <<>>
    /\ lastSent # <<>>
    /\ lastSent[1].message.kind = "error"
    /\ lastSent[1].message = sent[1].message

\* lines 215-216 and the loop edge of line 157: after the sleep either the
\* next iteration begins or the exception in flight leaves main
Sleep ==
    /\ pc = "finally"
    /\ IF error = NoError
       THEN /\ pc' = "fetch"
            /\ response' = NoResponse
            /\ homework' = NoHomework
            /\ current_status' = NoMessage
            /\ sent' = <<>>
            /\ lastPoll' = thisPoll
            /\ lastSent' = sent
            /\ thisPoll' = NoMessage
            /\ prevAtStart' = previous_status
            /\ failed' = "none"
            /\ fetched' = NoReply
            /\ polls' = Min(polls + 1, MaxPolls)
            /\ run' = IF FailedInPipeline
                      THEN Min((IF SameFailureAsLast THEN run ELSE 0) + 1, MaxRun)
                      ELSE 0
            /\ runSent' = IF FailedInPipeline
                          THEN Min((IF SameFailureAsLast THEN runSent ELSE 0)
                                       + Delivered(sent), MaxRun)
                          ELSE 0
            /\ UNCHANGED exit_code
       ELSE /\ pc' = "crashed"
            /\ exit_code' = 1
            /\ UNCHANGED << locals, history, fetched, counters >>
    /\ UNCHANGED << environ, previous_status, error >>

Next ==
    \/ Startup
    \/ GetApiAnswer
    \/ CheckResponse
    \/ GetLatestHomework
    \/ ParseStatus
    \/ Notify
    \/ Except
    \/ Sleep

Spec == Init /\ [][Next]_vars

(* ------------- get_latest_homework and parse_status alone ------------- *)

InitSelect ==
    /\ pc = "select"
    /\ environ = AllSet
    /\ response \in {Body("dict", hws) : hws \in SeqsUpTo(SelectHomeworks, MaxLen)}
    /\ homework = NoHomework
    /\ current_status = NoMessage
    /\ Fresh

SpecSelect == InitSelect /\ [][GetLatestHomework]_vars

InitParse ==
    /\ pc = "parse"
    /\ environ = AllSet
    /\ response = NoResponse
    /\ homework \in Homeworks
    /\ current_status = NoMessage
    /\ Fresh

SpecParse == InitParse /\ [][ParseStatus]_vars

(* ------------------------- helper predicates -------------------------- *)

\* the list get_latest_homework was given
Given == response.homeworks

\* the call under study has returned or raised
SelectDone == pc \in {"parse", "except"} /\ failed \in {"none", "select"}
ParseDone == pc \in {"notify", "except"} /\ failed \in {"none", "parse"}

AllDated(hws) == \A i \in 1..Len(hws) : hws[i].date_updated # 0

DistinctDates(hws) ==
    \A i, j \in 1..Len(hws) :
        i # j => hws[i].date_updated # hws[j].date_updated

\* index of the first item that carries the greatest date_updated
FirstMax(hws) ==
    CHOOSE i \in 1..Len(hws) :
        /\ \A j \in 1..Len(hws) : hws[j].date_updated <= hws[i].date_updated
        /\ \A j \in 1..(i - 1) : hws[j].date_updated < hws[i].date_updated

Permuted(hws, p) == [i \in 1..Len(hws) |-> hws[p[i]]]

\* some attempt of the log handed msg to the client and failed
FailedSendOf(log, msg) == \E i \in 1..Len(log) : log[i].message = msg /\ ~log[i].ok

(* ------------------------------ claims -------------------------------- *)

\* C1: previous_status is updated only after a confirmed send: when the send
\* of a newly derived status message fails, previous_status keeps the value
\* it had when the iteration began, and an iteration that derives the same
\* message right after such a failure attempts to deliver it again.
C1_StatusOnlyAfterConfirmedSend ==
    /\ (thisPoll.kind = "status" /\ FailedSendOf(sent, thisPoll))
          => previous_status = prevAtStart
    /\ (pc = "finally" /\ thisPoll.kind = "status" /\ FailedSendOf(lastSent, thisPoll))
          => (sent # <<>> /\ sent[1].message = thisPoll)

\* C2: past startup no failure of an iteration terminates the process: main
\* is never left by an exception.
C2_NeverTerminatesPastStartup == pc # "crashed"

\* C3: when two consecutive polls derive the same status message, no send is
\* attempted on the second poll.
C3_NoSendOnSameMessage ==
    (thisPoll.kind = "status" /\ lastPoll = thisPoll) => sent = <<>>

C3_Witness ==
    /\ pc = "finally"
    /\ thisPoll.kind = "status"
    /\ lastPoll = thisPoll
    /\ FailedSendOf(lastSent, thisPoll)

\* C4: when two consecutive polls derive different status messages, exactly
\* one send is made on the second poll and it carries the new message.
C4_ExactlyOneSendOfNewMessage ==
    (/\ pc = "finally"
     /\ lastPoll.kind = "status"
     /\ thisPoll.kind = "status"
     /\ lastPoll # thisPoll)
        => (Len(sent) = 1 /\ sent[1].message = thisPoll)

\* C5: an iteration that fails in fetch, envelope validation, item selection
\* or message derivation leaves previous_status as it was when the iteration
\* began.
C5_FailedPipelineKeepsStatus ==
    failed \in {"fetch", "check", "select", "parse"}
        => previous_status = prevAtStart

C5_Witness ==
    /\ pc = "finally"
    /\ failed = "fetch"
    /\ sent[1].message = ErrorMessage("ResponseStatusNotOk", "ResponseStatusNotOk")
    /\ prevAtStart.kind = "status"
    /\ previous_status = prevAtStart

\* C6: a failed delivery surfaces only in the log: after a send attempt has
\* failed, no further send is attempted in that iteration.
C6_DeliveryFailureOnlyLogged ==
    \A i \in 1..Len(sent) : ~sent[i].ok => i = Len(sent)

\* C7: on a list of N >= 1 items with pairwise distinct update timestamps
\* get_latest_homework returns the item with the greatest timestamp, and it
\* returns that same item for every permutation of the list.
C7_SelectsMaximumAnyOrder ==
    (SelectDone /\ Given # <<>> /\ AllDated(Given) /\ DistinctDates(Given))
        => /\ error = NoError
           /\ \E i \in 1..Len(Given) : homework = Given[i]
           /\ \A i \in 1..Len(Given) :
                  Given[i].date_updated <= homework.date_updated
           /\ \A p \in Permutations(1..Len(Given)) :
                  get_latest_homework(Body("dict", Permuted(Given, p)))
                      = Return(homework)

C7_Witness ==
    /\ SelectDone
    /\ Len(Given) = 3
    /\ AllDated(Given)
    /\ DistinctDates(Given)
    /\ homework = Given[2]

\* C8 (as claimed): on a list of exactly one item get_latest_homework returns
\* that item whether or not it carries an update timestamp.
C8_SingleItemShortcut ==
    (SelectDone /\ Len(Given) = 1)
        => (error = NoError /\ homework = Given[1])

\* C8 (amended): on a list of exactly one item get_latest_homework returns
\* that item when its update timestamp is present and non-empty, and raises
\* UnexpectedHomeworkData when it is missing or empty.
C8_SingleItemNeedsDate ==
    (SelectDone /\ Len(Given) = 1)
        => IF Given[1].date_updated # 0
           THEN pc = "parse" /\ error = NoError /\ homework = Given[1]
           ELSE pc = "except" /\ error = "UnexpectedHomeworkData"

C8_Witness ==
    /\ SelectDone
    /\ Len(Given) = 1
    /\ Given[1].date_updated = 0
    /\ error = "UnexpectedHomeworkData"

\* C9: when several items share the greatest update timestamp,
\* get_latest_homework returns the one that comes first in the list.
C9_FirstEncounteredMaximum ==
    (SelectDone /\ Given # <<>> /\ AllDated(Given))
        => (error = NoError /\ homework = Given[FirstMax(Given)])

C9_Witness ==
    /\ SelectDone
    /\ Len(Given) = 3
    /\ AllDated(Given)
    /\ Given[1].date_updated < Given[2].date_updated
    /\ Given[2].date_updated = Given[3].date_updated
    /\ Given[2] # Given[3]
    /\ homework = Given[2]

\* C10: parse_status returns the templated message of name and verdict
\* exactly when the name is non-empty and the status is one of reviewing,
\* rejected, approved; in every other case it raises UnexpectedHomeworkData
\* and no other exception type.
C10_ParseStatusSchemaOnly ==
    ParseDone =>
        IF /\ Truthy(homework.homework_name)
           /\ homework.status \in {"reviewing", "rejected", "approved"}
        THEN /\ error = NoError
             /\ current_status = Message("status", homework.homework_name,
                                         HOMEWORK_VERDICTS[homework.status])
        ELSE error = "UnexpectedHomeworkData"

\* some required environment value is missing or empty
MissingConfig ==
    \/ ~Truthy(environ.PRACTICUM_TOKEN)
    \/ ~Truthy(environ.TELEGRAM_TOKEN)
    \/ ~Truthy(environ.TELEGRAM_CHAT_ID)

\* the exception class this iteration raised first, NoError if none: it is
\* in flight until an except clause takes it and names it in its message
RaisedFirst ==
    IF failed = "none" THEN NoError
    ELSE IF pc = "except" THEN error
    ELSE sent[Len(sent)].message.verdict

\* the positions of main inside the try statement, before finally
Work == {"fetch", "check", "select", "parse", "notify", "except"}

\* C11: get_api_answer raises ResponseStatusNotOk for every answer whose
\* status code is not 200, registered or not; it raises RequestError only on
\* a transport failure and InvalidResponseData only for a 200 answer whose
\* body is not valid JSON.
C11_FetchFailureKinds ==
    fetched # NoReply =>
        /\ (fetched.transport = "ok" /\ fetched.status_code # 200)
              => (failed = "fetch" /\ RaisedFirst = "ResponseStatusNotOk")
        /\ (failed = "fetch" /\ RaisedFirst = "RequestError")
              => fetched.transport # "ok"
        /\ (failed = "fetch" /\ RaisedFirst = "InvalidResponseData")
              => (/\ fetched.transport = "ok"
                  /\ fetched.status_code = 200
                  /\ ~fetched.json)

\* C12: the envelope with an empty homework list meets one fixed policy on
\* every poll, whatever previous_status is: validation raises
\* EmptyHomeworksList, and the iteration is never a silent no-op.
C12_EmptyListOnePolicy ==
    (response = Body("dict", <<>>) /\ pc # "check")
        => (failed = "check" /\ RaisedFirst = "EmptyHomeworksList")

C12_Witness ==
    /\ response = Body("dict", <<>>)
    /\ pc = "finally"
    /\ failed = "check"
    /\ prevAtStart.kind = "status"

\* C13: when one of the three required configuration values is missing or
\* empty, the loop is never entered: no fetch and no send is ever made.
C13_NoLoopWithoutConfig ==
    MissingConfig
        => /\ pc \in {"start", "exited"}
           /\ fetched = NoReply
           /\ sent = <<>>
           /\ lastSent = <<>>
           /\ polls = 1

C13_Witness ==
    /\ pc = "exited"
    /\ Truthy(environ.PRACTICUM_TOKEN)
    /\ Truthy(environ.TELEGRAM_TOKEN)
    /\ environ.TELEGRAM_CHAT_ID = ""

\* C14: on a missing configuration value the process exits with a non-zero
\* exit status, never with the success status 0.
C14_NonZeroExitOnMisconfig ==
    (MissingConfig /\ pc = "exited") => exit_code # 0

\* C15: on the first poll after startup, whenever a status message is
\* derived, a send of that message is attempted: the baseline is the empty
\* string and no derived message equals it.
C15_FirstPollSends ==
    (polls = 1 /\ thisPoll.kind = "status" /\ pc # "notify")
        => /\ thisPoll # EmptyString
           /\ sent # <<>>
           /\ sent[1].message = thisPoll

C15_Witness ==
    /\ polls = 1
    /\ pc = "finally"
    /\ thisPoll.kind = "status"
    /\ Len(sent) = 1
    /\ sent[1].ok

\* C16: every iteration, however it ends, passes through the sleep of the
\* finally clause exactly once: the try statement is left only into finally,
\* finally is left at once, and the next fetch or the exit of a propagating
\* exception follows only from finally.
C16_SleepEveryIteration ==
    [][ /\ (pc \in Work => pc' \in Work \cup {"finally"})
        /\ (pc = "finally" => pc' \in {"fetch", "crashed"})
        /\ (pc' = "fetch" => pc \in {"start", "finally"})
        /\ (pc' = "crashed" => pc = "finally") ]_vars

C16_Witness ==
    /\ pc = "crashed"
    /\ polls = 2
    /\ failed = "fetch"
    /\ Len(sent) = 1
    /\ ~sent[1].ok

\* C17: the steps of an iteration run in the order fetch, validate, select,
\* derive, notify, a failure at one step skips every later step, and
\* get_latest_homework is never called on an empty list, so its index [0]
\* never fails.
C17_PipelineOrder ==
    /\ pc = "select" => (response.shape = "dict" /\ response.homeworks # <<>>)
    /\ RaisedFirst # "IndexError"
    /\ pc = "check" => (fetched # NoReply /\ response # NoResponse)
    /\ pc \in {"fetch", "check", "select"}
          => (homework = NoHomework /\ current_status = NoMessage)
    /\ pc = "parse"
          => (homework # NoHomework /\ current_status = NoMessage /\ sent = <<>>)
    /\ pc = "notify" => (current_status.kind = "status" /\ sent = <<>>)
    /\ failed = "fetch" => response = NoResponse
    /\ failed \in {"fetch", "check", "select"} => homework = NoHomework
    /\ FailedInPipeline
          => /\ current_status = NoMessage
             /\ \A i \in 1..Len(sent) : sent[i].message.kind = "error"

C17_Witness ==
    /\ pc = "finally"
    /\ failed = "check"
    /\ response = Body("dict", <<>>)
    /\ homework = NoHomework

\* C18: previous_status is always the empty string or a status message that
\* parse_status produced in this or an earlier iteration; it changes only in
\* the notify step and never holds the text of an error notification.
C18_StatusEmptyOrDerived ==
    /\ previous_status.kind \in {"empty", "status"}
    /\ previous_status.kind = "empty" => previous_status = EmptyString
    /\ previous_status.kind = "status"
          => \E hw \in PolledHomeworks : parse_status(hw) = Return(previous_status)
    /\ previous_status # prevAtStart
          => /\ pc \in {"except", "finally", "crashed"}
             /\ previous_status = current_status
             /\ previous_status = thisPoll
             /\ sent # <<>>
             /\ sent[1].message = previous_status

C18_Witness ==
    /\ pc = "finally"
    /\ FailedInPipeline
    /\ sent # <<>>
    /\ sent[1].message.kind = "error"
    /\ previous_status.kind = "status"

\* C19: an iteration that fails in fetch, validation, selection or
\* derivation attempts exactly one send, of an error message, and error
\* messages are not compared with previous_status: a run of k iterations
\* failing alike, their sends succeeding, delivers k error messages.
C19_ErrorMessageEveryFailure ==
    /\ (FailedInPipeline /\ pc \in {"finally", "crashed"})
          => (Len(sent) = 1 /\ sent[1].message.kind = "error")
    /\ run = runSent

C19_Witness ==
    /\ run >= 2
    /\ runSent = run
    /\ pc = "finally"
    /\ FailedInPipeline
    /\ SameFailureAsLast

====
